---- MODULE Spec2Model ----
(***************************************************************************)
(* Model of chemscad/gui_modules/module_filter_reactor/                    *)
(* module_filter_reactor.py: the editor of a filter reactor module         *)
(* (class ChemModule).  The state is the form's widgets, the three I/O     *)
(* registries, the I/O table, the live CAD object (when editing) and the   *)
(* record of the calls a commit makes on its collaborators.                *)
(***************************************************************************)
EXTENDS Integers, Sequences, FiniteSets, TLC

VARIABLES
    ui,               \* the widgets of the form (values and enabled flags)
    params,           \* self.params
    dict_inputs,      \* self.dict_inputs, an insertion-ordered dict
    dict_outputs,     \* self.dict_outputs
    dict_top_inlets,  \* self.dict_top_inlets
    table_io,         \* rows of self.table_io
    selected,         \* selected row of table_io, 0 when none
    cad_obj,          \* self.cad_obj: <<>> is None, <<o>> the live object
    test,             \* self.test (no parent: standalone)
    phase,            \* "open", "closed" (self.close() ran), "raised"
    log,              \* calls made on the collaborators and messages shown
    built,            \* objects handed to parent.buildModule
    err               \* exception that left the last handler uncaught

vars == <<ui, params, dict_inputs, dict_outputs, dict_top_inlets, table_io,
          selected, cad_obj, test, phase, log, built, err>>

----------------------------------------------------------------------------
(* Bounds of the model *)

(* Fields of the form the user may have changed since it was opened *)
MaxEdits == 1

(* Rows the I/O table may hold *)
MaxRows == 2

----------------------------------------------------------------------------
(* Class constants, lines 21-25 *)

SIDE_INPUT == "Side input"

SIDE_OUTPUT == "Side output"

DEF_OUTPUT == "Default output"

TOP_LUER == "Luer top inlet"

TOP_CUSTOM == "Custom top inlet"

(* The collaborator's enumerations (ccad.FilterReactorCAD).  The first top *)
(* is the non-threaded style the form shows by default; the first bottom   *)
(* has an internal pipe.                                                   *)

TOPS == <<"top_A", "top_custom", "top_threaded">>

THREADED_TOPS == {"top_threaded"}

BOTTOMS == <<"flat", "round_ext">>

BOTTOMS_PIPE == {"flat"}

ALIGN_TOP_STRATEGIES == <<"Expand body", "Lift reactor">>

ALIGN_FILTER_STRATEGIES == <<"Adapt", "Lift reactor">>

IncompatibilityError == "IncompatibilityError"

ConstraintError == "ConstraintError"

OtherError == "Exception"

ExcKinds == {IncompatibilityError, ConstraintError, OtherError}

----------------------------------------------------------------------------
(* Python dicts keep insertion order: a dict is a sequence of entries      *)
(* [name, d] with distinct names.                                          *)

Keys(s) == {s[i].name : i \in 1..Len(s)}

Has(s, n) == n \in Keys(s)

Get(s, n) == (CHOOSE i \in 1..Len(s) : s[i].name = n)

Val(s, n) == s[Get(s, n)].d

Put(s, n, d) ==
    IF Has(s, n)
    THEN [i \in 1..Len(s) |-> IF s[i].name = n THEN [name |-> n, d |-> d] ELSE s[i]]
    ELSE Append(s, [name |-> n, d |-> d])

Del(s, n) == SelectSeq(s, LAMBDA e : e.name # n)

RemoveAt(s, i) == SubSeq(s, 1, i - 1) \o SubSeq(s, i + 1, Len(s))

IndexOf(seq, x) == CHOOSE i \in 1..Len(seq) : seq[i] = x

Range(seq) == {seq[i] : i \in 1..Len(seq)}

(* The five spin boxes of the form are QDoubleSpinBox with the default two *)
(* decimals: a value is a multiple of 0.01.  The values of the form, of    *)
(* self.params and of the matching attributes of a CAD object (volume,     *)
(* h_filter, d_filter, d_can, r) are counted in hundredths; Hundredths(x)  *)
(* is the whole number x.                                                  *)
Hundredths(x) == 100 * x

----------------------------------------------------------------------------
(* The geometry collaborator, ccad.FilterReactorCAD.  Its code is not part *)
(* of the file modelled here: what follows is what the specification says  *)
(* of it (sections 3, 4.3, 6 and the glossary).                            *)

D_CAN == Hundredths(3)

(* The radius the collaborator derives when the radius is not constrained  *)
(* by the user: fixed by the fitting for a threaded top, a function of the *)
(* volume otherwise.                                                       *)
CalcRadius(type_top, volume) ==
    IF type_top \in THREADED_TOPS THEN Hundredths(8)
    ELSE Hundredths(10) + (volume \div 10)

(* The default output every module has; the collaborator creates it.       *)
DefaultOutputIO ==
    [height_per |-> 0, angle |-> 0, diameter |-> 2, external |-> FALSE,
     connected |-> FALSE]

(* construct(volume, topType, bottomType, filterDiameter, filterHeight,    *)
(* pipeDiameter, alignTopStrategy, alignFilterStrategy) -> ModuleHandle    *)
Construct(p) ==
    [volume |-> p.volume, type_top |-> p.type_top,
     type_bottom |-> p.type_bottom, d_filter |-> p.d_filter,
     h_filter |-> p.h_filter, d_can |-> p.d_can,
     align_top_strategy |-> p.align_top_strategy,
     align_filter_strategy |-> p.align_filter_strategy,
     r |-> CalcRadius(p.type_top, p.volume),
     r_constrained |-> (p.type_top \in THREADED_TOPS),
     inputs |-> <<>>,
     outputs |-> <<[name |-> "default", d |-> DefaultOutputIO]>>,
     top_inlets |-> <<>>]

(* The property setters of a ModuleHandle.  A threaded top forces          *)
(* r_constrained and derives the radius; setting r constrains it;          *)
(* releasing the constraint recalculates the radius.                       *)
SetField(o, f, v) ==
    CASE f = "r" -> [o EXCEPT !.r = v, !.r_constrained = TRUE]
      [] f = "r_constrained" ->
            IF v \/ o.type_top \in THREADED_TOPS
            THEN [o EXCEPT !.r_constrained = TRUE]
            ELSE [o EXCEPT !.r_constrained = FALSE,
                           !.r = CalcRadius(o.type_top, o.volume)]
      [] f = "type_top" ->
            IF v \in THREADED_TOPS
            THEN [o EXCEPT !.type_top = v, !.r_constrained = TRUE,
                           !.r = CalcRadius(v, o.volume)]
            ELSE IF o.r_constrained
                 THEN [o EXCEPT !.type_top = v]
                 ELSE [o EXCEPT !.type_top = v, !.r = CalcRadius(v, o.volume)]
      [] f = "volume" ->
            IF o.r_constrained
            THEN [o EXCEPT !.volume = v]
            ELSE [o EXCEPT !.volume = v, !.r = CalcRadius(o.type_top, v)]
      [] f = "type_bottom" -> [o EXCEPT !.type_bottom = v]
      [] f = "d_can" -> [o EXCEPT !.d_can = v]
      [] f = "h_filter" -> [o EXCEPT !.h_filter = v]
      [] f = "d_filter" -> [o EXCEPT !.d_filter = v]
      [] f = "align_top_strategy" -> [o EXCEPT !.align_top_strategy = v]
      [] f = "align_filter_strategy" -> [o EXCEPT !.align_filter_strategy = v]

(* addInputPercentage / addOutputPercentage: the object stores its own     *)
(* copy of the I/O under its name; an I/O attached again keeps its         *)
(* connection.                                                             *)
SideIO(ios, name, d) ==
    [height_per |-> d.height_per, angle |-> d.angle, diameter |-> d.diameter,
     external |-> d.external,
     connected |-> IF Has(ios, name) THEN Val(ios, name).connected ELSE FALSE]

AddInputPercentage(o, name, d) ==
    [o EXCEPT !.inputs = Put(o.inputs, name, SideIO(o.inputs, name, d))]

AddOutputPercentage(o, name, d) ==
    [o EXCEPT !.outputs = Put(o.outputs, name, SideIO(o.outputs, name, d))]

AddCustomTopInlet(o, name, d) ==
    [o EXCEPT !.top_inlets =
        Put(o.top_inlets, name,
            [diameter |-> d.diameter, length |-> d.length, walls |-> d.walls,
             type_io |-> d.type_io])]

(* getHeightPercentage(io): the height fraction of an attached side I/O.   *)
GetHeightPercentage(io) == io.height_per

----------------------------------------------------------------------------
(* One call of a commit on a collaborator: op, the object it acts on       *)
(* ("tmp" the validation object, "new" the object being created, "live"    *)
(* self.cad_obj, "parent" the owner), arg the field or I/O name, val the   *)
(* value passed.                                                           *)

Call(op, tgt, arg, val) == [op |-> op, tgt |-> tgt, arg |-> arg, val |-> val]

ApplyCall(o, c) ==
    CASE c.op = "set" -> SetField(o, c.arg, c.val)
      [] c.op = "addInputPercentage" -> AddInputPercentage(o, c.arg, c.val)
      [] c.op = "addOutputPercentage" -> AddOutputPercentage(o, c.arg, c.val)
      [] c.op = "addCustomTopInlet" -> AddCustomTopInlet(o, c.arg, c.val)
      [] OTHER -> o

RECURSIVE ApplyCalls(_, _)
ApplyCalls(o, calls) ==
    IF calls = <<>> THEN o
    ELSE ApplyCalls(ApplyCall(o, Head(calls)), Tail(calls))

(* What the log keeps of a call: everything but the value, and what the    *)
(* call raised ("none" when it returned).                                  *)
Entry(c, exc) == [op |-> c.op, tgt |-> c.tgt, arg |-> c.arg, exc |-> exc]

Message(title) ==
    [op |-> "message", tgt |-> "user", arg |-> title, exc |-> "none"]

(* Run `calls` in order on object o.  The calls of a commit are numbered   *)
(* from 1; these are numbers off+1 .. off+Len(calls).  The call numbered   *)
(* plan.at raises plan.kind and leaves the object as it was; the calls     *)
(* after it are not made.                                                  *)
Exec(o, calls, off, plan) ==
    LET j == IF plan.at > off /\ plan.at <= off + Len(calls)
             THEN plan.at - off ELSE 0
        made == IF j = 0 THEN calls ELSE SubSeq(calls, 1, j - 1)
    IN [obj |-> ApplyCalls(o, made),
        log |-> [i \in 1..Len(made) |-> Entry(made[i], "none")]
                \o (IF j = 0 THEN <<>> ELSE <<Entry(calls[j], plan.kind)>>),
        exc |-> IF j = 0 THEN "none" ELSE plan.kind,
        n |-> off + (IF j = 0 THEN Len(calls) ELSE j)]

----------------------------------------------------------------------------
(* The form.  ui holds, for each widget, its value and whether it is       *)
(* enabled.                                                                *)

(* QDoubleSpinBox.setValue keeps the value inside the box's range.         *)
setValue(v, lo, hi) == IF v < lo THEN lo ELSE IF v > hi THEN hi ELSE v

(* The maximum of a QDoubleSpinBox on which setMaximum was not called      *)
(* (spin_r, spin_d_can; the other boxes when their first value is set):    *)
(* 99.99.                                                                  *)
DefaultMaximum == Hundredths(100) - 1

(* initUI: _buildBasicSettings and _buildAdvancedSettings.  The combo      *)
(* boxes show their first item; a widget is enabled unless disabled.       *)
initUI ==
    [spin_vol |-> setValue(Hundredths(20), 0, DefaultMaximum),
     combo_top |-> TOPS[1],
     combo_bottom |-> BOTTOMS[1],
     spin_h_filter |-> setValue(Hundredths(3), 0, DefaultMaximum),
     spin_d_filter |-> setValue(Hundredths(20), 0, DefaultMaximum),
     spin_r |-> 0,
     spin_r_enabled |-> FALSE,
     check_r_constrained |-> FALSE,
     check_enabled |-> TRUE,
     spin_d_can |-> setValue(D_CAN, 0, DefaultMaximum),
     spin_d_can_enabled |-> TRUE,
     combo_align_top_strategy |-> ALIGN_TOP_STRATEGIES[1],
     combo_align_filter_strategy |-> ALIGN_FILTER_STRATEGIES[1]]

(* bottomTypeChanged that disables the pipe diameter and never enables it  *)
(* again.                                                                  *)
bottomTypeChanged_OnlyDisables(u) ==
    IF u.combo_bottom \in BOTTOMS_PIPE
    THEN u
    ELSE [u EXCEPT !.spin_d_can_enabled = FALSE]

(* Slot of combo_bottom.currentIndexChanged *)
bottomTypeChanged(u) ==
    IF u.combo_bottom \in BOTTOMS_PIPE
    THEN [u EXCEPT !.spin_d_can_enabled = TRUE]
    ELSE [u EXCEPT !.spin_d_can_enabled = FALSE]

(* Slot of check_r_constrained.stateChanged *)
rConstraintChanged(u) ==
    IF ~u.check_r_constrained
    THEN [u EXCEPT !.spin_r_enabled = FALSE]
    ELSE [u EXCEPT !.spin_r_enabled = TRUE]

(* QCheckBox.setCheckState: stateChanged is emitted only when the state    *)
(* changes.                                                                *)
setCheckState(u, checked) ==
    IF u.check_r_constrained = checked THEN u
    ELSE rConstraintChanged([u EXCEPT !.check_r_constrained = checked])

(* topTypeChanged with the radius disabled before the check box is forced: *)
(* the check box's slot then enables the radius again.                     *)
topTypeChanged_DisablesFirst(u) ==
    IF u.combo_top \in THREADED_TOPS
    THEN [setCheckState([u EXCEPT !.spin_r_enabled = FALSE], TRUE)
            EXCEPT !.check_enabled = FALSE]
    ELSE [u EXCEPT !.check_enabled = TRUE]

(* topTypeChanged relying on the check box alone: the radius is not        *)
(* disabled after the check box is forced.                                 *)
topTypeChanged_KeepsRadius(u) ==
    IF u.combo_top \in THREADED_TOPS
    THEN [setCheckState(u, TRUE) EXCEPT !.check_enabled = FALSE]
    ELSE [u EXCEPT !.check_enabled = TRUE]

(* Slot of combo_top.currentIndexChanged *)
topTypeChanged(u) ==
    IF u.combo_top \in THREADED_TOPS
    THEN [setCheckState(u, TRUE) EXCEPT !.spin_r_enabled = FALSE,
                                        !.check_enabled = FALSE]
    ELSE [u EXCEPT !.check_enabled = TRUE]

(* QComboBox.setCurrentIndex: currentIndexChanged is emitted only when the *)
(* index changes.                                                          *)
setTopIndex(u, i) ==
    IF u.combo_top = TOPS[i] THEN u
    ELSE topTypeChanged([u EXCEPT !.combo_top = TOPS[i]])

setBottomIndex(u, i) ==
    IF u.combo_bottom = BOTTOMS[i] THEN u
    ELSE bottomTypeChanged([u EXCEPT !.combo_bottom = BOTTOMS[i]])

(* restoreParams, lines 268-278: self.params from the CAD object           *)
restoredParams(o) ==
    [volume |-> o.volume, type_top |-> o.type_top,
     type_bottom |-> o.type_bottom, h_filter |-> o.h_filter,
     d_filter |-> o.d_filter, d_can |-> o.d_can, r |-> o.r,
     r_constrained |-> o.r_constrained]

(* restoreParams, lines 310-322: strategy of the object to label shown     *)
alignTopLabel(u, s) ==
    IF s = "expand" THEN "Expand body"
    ELSE IF s = "lift" THEN "Lift reactor"
    ELSE u.combo_align_top_strategy

alignFilterLabel(u, s) ==
    IF s = "adapt" THEN "Adapt"
    ELSE IF s = "lift" THEN "Lift reactor"
    ELSE u.combo_align_filter_strategy

(* restoreParams, lines 280-322: the widgets, set in the order of the code *)
restoreParams(u, o) ==
    LET p  == restoredParams(o)
        u1 == [u EXCEPT !.spin_vol = setValue(p.volume, 0, Hundredths(200))]
        u2 == setTopIndex(u1, IndexOf(TOPS, p.type_top))
        u3 == setBottomIndex(u2, IndexOf(BOTTOMS, p.type_bottom))
        u4 == [u3 EXCEPT
                 !.spin_h_filter = setValue(p.h_filter, 0, Hundredths(1000)),
                 !.spin_d_filter = setValue(p.d_filter, 0, Hundredths(200)),
                 !.spin_d_can = setValue(p.d_can, 0, DefaultMaximum),
                 !.spin_r = setValue(p.r, 0, DefaultMaximum)]
        u5 == IF p.r_constrained
              THEN LET c == setCheckState(u4, TRUE)
                   IN IF p.type_top \in THREADED_TOPS
                      THEN [c EXCEPT !.spin_r_enabled = FALSE,
                                     !.check_enabled = FALSE]
                      ELSE [c EXCEPT !.check_enabled = TRUE]
              ELSE [setCheckState(u4, FALSE) EXCEPT !.spin_r_enabled = FALSE]
    IN [u5 EXCEPT
          !.combo_align_top_strategy = alignTopLabel(u5, o.align_top_strategy),
          !.combo_align_filter_strategy =
              alignFilterLabel(u5, o.align_filter_strategy)]

(* readForm keeping the labels of the two strategy boxes as they are shown *)
readForm_RawLabels(u) ==
    [volume |-> u.spin_vol,
     type_top |-> u.combo_top,
     type_bottom |-> u.combo_bottom,
     h_filter |-> u.spin_h_filter,
     d_filter |-> u.spin_d_filter,
     d_can |-> u.spin_d_can,
     r |-> u.spin_r,
     r_constrained |-> u.check_r_constrained,
     align_top_strategy |-> u.combo_align_top_strategy,
     align_filter_strategy |-> u.combo_align_filter_strategy]

(* readForm: the snapshot of the form *)
readForm(u) ==
    [volume |-> u.spin_vol,
     type_top |-> u.combo_top,
     type_bottom |-> u.combo_bottom,
     h_filter |-> u.spin_h_filter,
     d_filter |-> u.spin_d_filter,
     d_can |-> u.spin_d_can,
     r |-> u.spin_r,
     r_constrained |-> u.check_r_constrained,
     align_top_strategy |->
        IF u.combo_align_top_strategy = "Expand body" THEN "expand"
        ELSE IF u.combo_align_top_strategy = "Lift reactor" THEN "lift"
        ELSE u.combo_align_top_strategy,
     align_filter_strategy |->
        IF u.combo_align_filter_strategy = "Adapt" THEN "adapt"
        ELSE IF u.combo_align_filter_strategy = "Lift reactor" THEN "lift"
        ELSE u.combo_align_filter_strategy]

----------------------------------------------------------------------------
(* The I/O table and the registries *)

(* _addNewRow: the type shown and whether the row can be selected          *)
NewRow(name, type_io, connected) ==
    [name |-> name,
     type |-> IF type_io = "custom" THEN "Custom top inlet"
              ELSE IF type_io = "luer" THEN "Luer top inlet"
              ELSE type_io,
     connected |-> connected,
     selectable |-> type_io # DEF_OUTPUT]

_addNewRow(table, name, type_io, connected) ==
    Append(table, NewRow(name, type_io, connected))

(* restoreIO, the descriptor kept for a side input or output               *)
restoredSide(io) ==
    [height_per |-> GetHeightPercentage(io), angle |-> io.angle,
     diameter |-> io.diameter, external |-> io.external,
     connected |-> io.connected]

(* restoreIO, the descriptor kept for a top inlet                          *)
restoredTop(io) ==
    [diameter |-> io.diameter, length |-> io.length, walls |-> io.walls,
     type_io |-> io.type_io, connected |-> FALSE]

(* restoreIO giving the default output the row of any side output          *)
outputRowType_NoDefault(name) == SIDE_OUTPUT

(* restoreIO, lines 356-380: the type of the row of an output              *)
outputRowType(name) == IF name = "default" THEN DEF_OUTPUT ELSE SIDE_OUTPUT

(* restoreIO: the three registries and the table, from the CAD object      *)
restoreIO(o) ==
    LET ins  == [i \in 1..Len(o.inputs) |->
                   [name |-> o.inputs[i].name, d |-> restoredSide(o.inputs[i].d)]]
        outs == [i \in 1..Len(o.outputs) |->
                   [name |-> o.outputs[i].name, d |-> restoredSide(o.outputs[i].d)]]
        tops == [i \in 1..Len(o.top_inlets) |->
                   [name |-> o.top_inlets[i].name,
                    d |-> restoredTop(o.top_inlets[i].d)]]
    IN [dict_inputs |-> ins, dict_outputs |-> outs, dict_top_inlets |-> tops,
        table_io |->
            [i \in 1..Len(ins) |->
                NewRow(ins[i].name, SIDE_INPUT, ins[i].d.connected)]
            \o [i \in 1..Len(outs) |->
                NewRow(outs[i].name, outputRowType(outs[i].name),
                       outs[i].d.connected)]
            \o [i \in 1..Len(tops) |->
                NewRow(tops[i].name, tops[i].d.type_io, tops[i].d.connected)]]

----------------------------------------------------------------------------
(* The handlers of the I/O tab.  They read and write the part of self      *)
(* gathered in a record: the registries, the table, the selection and the  *)
(* CAD object; exc is the exception that leaves the handler, if any.       *)

Self ==
    [dict_inputs |-> dict_inputs, dict_outputs |-> dict_outputs,
     dict_top_inlets |-> dict_top_inlets, table_io |-> table_io,
     selected |-> selected, cad_obj |-> cad_obj, exc |-> "none"]

(* addInput attaching the input to the CAD object at once                  *)
addInput_Attaches(s, name, d) ==
    [s EXCEPT
       !.table_io = IF ~Has(s.dict_inputs, name)
                    THEN _addNewRow(s.table_io, name, d.type_io, FALSE)
                    ELSE s.table_io,
       !.dict_inputs = Put(s.dict_inputs, name, d),
       !.cad_obj = IF s.cad_obj = <<>> THEN <<>>
                   ELSE <<AddInputPercentage(s.cad_obj[1], name, d)>>]

(* addInput(params): params holds the name and the descriptor              *)
addInput(s, name, d) ==
    [s EXCEPT
       !.table_io = IF ~Has(s.dict_inputs, name)
                    THEN _addNewRow(s.table_io, name, d.type_io, FALSE)
                    ELSE s.table_io,
       !.dict_inputs = Put(s.dict_inputs, name, d)]

addOutput(s, name, d) ==
    [s EXCEPT
       !.table_io = IF ~Has(s.dict_outputs, name)
                    THEN _addNewRow(s.table_io, name, d.type_io, FALSE)
                    ELSE s.table_io,
       !.dict_outputs = Put(s.dict_outputs, name, d)]

(* addTopInlet adding a row whether or not the name is known               *)
addTopInlet_AlwaysNewRow(s, name, d) ==
    [s EXCEPT
       !.table_io = _addNewRow(s.table_io, name, d.type_io, FALSE),
       !.dict_top_inlets = Put(s.dict_top_inlets, name, d)]

addTopInlet(s, name, d) ==
    [s EXCEPT
       !.table_io = IF ~Has(s.dict_top_inlets, name)
                    THEN _addNewRow(s.table_io, name, d.type_io, FALSE)
                    ELSE s.table_io,
       !.dict_top_inlets = Put(s.dict_top_inlets, name, d)]

(* deleteIO, lines 173-187: `del registry[name]`, then `del` of the same   *)
(* name in the CAD object's dict when there is a CAD object.  A `del` of   *)
(* a missing key raises KeyError and the handler stops there.              *)
deleteFrom(s, reg, objreg, name) ==
    IF ~Has(reg, name) THEN [s |-> s, reg |-> reg, objreg |-> objreg, exc |-> "KeyError"]
    ELSE IF s.cad_obj = <<>>
         THEN [s |-> s, reg |-> Del(reg, name), objreg |-> objreg, exc |-> "none"]
         ELSE IF ~Has(objreg, name)
              THEN [s |-> s, reg |-> Del(reg, name), objreg |-> objreg,
                    exc |-> "KeyError"]
              ELSE [s |-> s, reg |-> Del(reg, name), objreg |-> Del(objreg, name),
                    exc |-> "none"]

(* removeRow, line 192, on a table in SingleSelection mode (line 957)      *)
(* whose selected row is the one removed: Qt makes the next enabled row    *)
(* current and selected, or else the nearest enabled row before it; the    *)
(* items of the default output have no flags (lines 538-541) and are       *)
(* passed over.  The result is the selected row of the table without the   *)
(* row, 0 when no row is selected.                                         *)
rowAfterRemove(table, row) ==
    LET t      == RemoveAt(table, row)
        after  == {i \in row..Len(t) : t[i].selectable}
        before == {i \in 1..(row - 1) : t[i].selectable}
    IN IF after # {} THEN CHOOSE i \in after : \A j \in after : i <= j
       ELSE IF before # {} THEN CHOOSE i \in before : \A j \in before : j <= i
       ELSE 0

(* deleteIO: the whole slot.  The row is removed only when no exception    *)
(* was raised before.                                                      *)
deleteIO(s) ==
    IF s.selected = 0 THEN s
    ELSE
    LET row  == s.selected
        name == s.table_io[row].name
        type_io == s.table_io[row].type
        o    == s.cad_obj[1]
        done(t) == IF t.exc = "none"
                   THEN [t EXCEPT !.table_io = RemoveAt(s.table_io, row),
                                  !.selected = rowAfterRemove(s.table_io, row)]
                   ELSE t
    IN IF type_io = DEF_OUTPUT THEN s
       ELSE IF type_io = SIDE_INPUT
       THEN LET r == deleteFrom(s, s.dict_inputs,
                                IF s.cad_obj = <<>> THEN <<>> ELSE o.inputs, name)
            IN done([s EXCEPT !.dict_inputs = r.reg, !.exc = r.exc,
                      !.cad_obj = IF s.cad_obj = <<>> THEN <<>>
                                  ELSE <<[o EXCEPT !.inputs = r.objreg]>>])
       ELSE IF type_io = SIDE_OUTPUT
       THEN LET r == deleteFrom(s, s.dict_outputs,
                                IF s.cad_obj = <<>> THEN <<>> ELSE o.outputs, name)
            IN done([s EXCEPT !.dict_outputs = r.reg, !.exc = r.exc,
                      !.cad_obj = IF s.cad_obj = <<>> THEN <<>>
                                  ELSE <<[o EXCEPT !.outputs = r.objreg]>>])
       ELSE LET r == deleteFrom(s, s.dict_top_inlets,
                                IF s.cad_obj = <<>> THEN <<>> ELSE o.top_inlets, name)
            IN done([s EXCEPT !.dict_top_inlets = r.reg, !.exc = r.exc,
                      !.cad_obj = IF s.cad_obj = <<>> THEN <<>>
                                  ELSE <<[o EXCEPT !.top_inlets = r.objreg]>>])

----------------------------------------------------------------------------
(* The commit.  plan names the collaborator call that raises (at, 0 for    *)
(* none), what it raises (kind), and whether the owner's call raises.      *)

(* The entered radius used whatever the top *)
radiusIsSet_IgnoresTop(p) == p.r_constrained

(* The entered radius used in every commit *)
radiusIsSet_Always(p) == TRUE

(* Lines 787 and 707-710: the entered radius is used *)
radiusIsSet(p) == p.r_constrained /\ p.type_top \notin THREADED_TOPS

(* _buildCADObject: construct, then set the radius *)
_buildCADObject(p, tgt, plan) ==
    LET mk == Exec(<<>>, <<Call("construct", tgt, "", p)>>, 0, plan)
    IN IF mk.exc # "none" THEN mk
       ELSE LET st == Exec(Construct(p),
                           IF radiusIsSet(p)
                           THEN <<Call("set", tgt, "r", p.r)>> ELSE <<>>,
                           mk.n, plan)
            IN [st EXCEPT !.log = mk.log \o st.log]

(* a, then b when a raised nothing *)
AndThen(a, b) ==
    IF a.exc # "none" THEN a ELSE [b EXCEPT !.log = a.log \o b.log]

buildInputs(o, tgt, dIn, off, plan) ==
    Exec(o, [i \in 1..Len(dIn) |->
                Call("addInputPercentage", tgt, dIn[i].name, dIn[i].d)],
         off, plan)

(* buildOutputs skipping nothing *)
skipOutput_Never(name) == FALSE

(* buildOutputs, lines 569-570: the default output is skipped *)
skipOutput(name) == name = "default"

buildOutputs(o, tgt, dOut, off, plan) ==
    LET outs == SelectSeq(dOut, LAMBDA e : ~skipOutput(e.name))
    IN Exec(o, [i \in 1..Len(outs) |->
                   Call("addOutputPercentage", tgt, outs[i].name, outs[i].d)],
            off, plan)

(* buildTopInlets catching every exception of addCustomTopInlet *)
topInletCaught_Any(exc) == exc # "none"

(* buildTopInlets without its except clause *)
topInletCaught_Never(exc) == FALSE

(* buildTopInlets, line 595: what `except IncompatibilityError` catches    *)
topInletCaught(exc) == exc = IncompatibilityError

(* buildTopInlets without the except clause of the auto-placement *)
autoPlaceCaught_Never(exc) == FALSE

(* buildTopInlets, line 602: what `except ConstraintError` catches         *)
autoPlaceCaught(exc) == exc = ConstraintError

(* buildTopInlets: IncompatibilityError of an inlet ends the step          *)
(* silently; ConstraintError of the auto-placement is reported and the     *)
(* step returns; anything else leaves the method.                          *)
buildTopInlets(o, tgt, dTop, off, plan) ==
    LET a == Exec(o, [i \in 1..Len(dTop) |->
                        Call("addCustomTopInlet", tgt, dTop[i].name, dTop[i].d)],
                  off, plan)
    IN IF topInletCaught(a.exc) THEN [a EXCEPT !.exc = "none"]
       ELSE IF a.exc # "none" THEN a
       ELSE LET pl == Exec(a.obj, <<Call("autoPlaceTopInlets", tgt, "", 0)>>,
                           a.n, plan)
            IN IF autoPlaceCaught(pl.exc)
               THEN [pl EXCEPT !.exc = "none",
                               !.log = a.log \o pl.log
                                       \o <<Message("Auto-placement error")>>]
               ELSE [pl EXCEPT !.log = a.log \o pl.log]

(* The I/O built with the outputs before the inputs *)
buildIO_OutputsFirst(o, tgt, dIn, dOut, dTop, off, plan) ==
    LET i == buildOutputs(o, tgt, dOut, off, plan)
        u == AndThen(i, buildInputs(i.obj, tgt, dIn, i.n, plan))
    IN AndThen(u, buildTopInlets(u.obj, tgt, dTop, u.n, plan))

(* Lines 667-670 and 729-731 *)
buildIO(o, tgt, dIn, dOut, dTop, off, plan) ==
    LET i == buildInputs(o, tgt, dIn, off, plan)
        u == AndThen(i, buildOutputs(i.obj, tgt, dOut, i.n, plan))
    IN AndThen(u, buildTopInlets(u.obj, tgt, dTop, u.n, plan))

(* The owner's call: parent.buildModule(reactor) or parent.refresh()       *)
ParentCall(op, plan) ==
    [op |-> op, tgt |-> "parent", arg |-> "",
     exc |-> IF plan.parent THEN OtherError ELSE "none"]

(* The creation error reported without `return False`: the method goes on *)
(* to hand an object to the owner.                                         *)
creationError_NoReturn(b, p) ==
    [log |-> b.log \o <<Message("Creation error"),
                        [op |-> "buildModule", tgt |-> "parent", arg |-> "",
                         exc |-> "none"]>>,
     built |-> <<Construct(p)>>, exc |-> "none"]

(* _buildNewModule, lines 658-664: the construction raised *)
creationError(b, p) ==
    [log |-> b.log \o <<Message("Creation error")>>, built |-> <<>>,
     exc |-> "none"]

(* The I/O error reported without `return False` *)
ioError_NoReturn(io) ==
    [log |-> io.log \o <<Message("I/Os error"),
                         [op |-> "buildModule", tgt |-> "parent", arg |-> "",
                          exc |-> "none"]>>,
     built |-> <<io.obj>>, exc |-> "none"]

(* The I/O steps of _buildNewModule outside any try: what they raise       *)
(* leaves the method.                                                      *)
ioError_Raises(io) ==
    [log |-> io.log, built |-> <<>>, exc |-> io.exc]

(* _buildNewModule, lines 671-677: building the I/O raised *)
ioError(io) ==
    [log |-> io.log \o <<Message("I/Os error")>>, built |-> <<>>,
     exc |-> "none"]

(* _buildNewModule.  built: the objects handed to parent.buildModule;      *)
(* exc: the exception that leaves the method.                              *)
_buildNewModule(p, dIn, dOut, dTop, plan) ==
    LET b == _buildCADObject(p, "new", plan)
    IN IF b.exc # "none"
       THEN creationError(b, p)
       ELSE LET io == AndThen(b, buildIO(b.obj, "new", dIn, dOut, dTop, b.n, plan))
            IN IF io.exc # "none"
               THEN ioError(io)
               ELSE [log |-> io.log \o <<ParentCall("buildModule", plan)>>,
                     built |-> <<io.obj>>,
                     exc |-> IF plan.parent THEN OtherError ELSE "none"]

(* The writes to the live object with the radius written last *)
liveWrites_RadiusLast(p) ==
    <<Call("set", "live", "volume", p.volume),
      Call("set", "live", "type_top", p.type_top),
      Call("set", "live", "type_bottom", p.type_bottom),
      Call("set", "live", "d_can", p.d_can),
      Call("set", "live", "h_filter", p.h_filter),
      Call("set", "live", "d_filter", p.d_filter),
      Call("set", "live", "align_top_strategy", p.align_top_strategy),
      Call("set", "live", "align_filter_strategy", p.align_filter_strategy)>>
    \o (IF p.r_constrained /\ p.type_top \notin THREADED_TOPS
        THEN <<Call("set", "live", "r", p.r)>>
        ELSE <<Call("set", "live", "r_constrained", FALSE)>>)

(* _updateModule, lines 707-725: the writes to the live object, in order   *)
liveWrites(p) ==
    (IF radiusIsSet(p)
     THEN <<Call("set", "live", "r", p.r)>>
     ELSE <<Call("set", "live", "r_constrained", FALSE)>>)
    \o <<Call("set", "live", "volume", p.volume),
         Call("set", "live", "type_top", p.type_top),
         Call("set", "live", "type_bottom", p.type_bottom),
         Call("set", "live", "d_can", p.d_can),
         Call("set", "live", "h_filter", p.h_filter),
         Call("set", "live", "d_filter", p.d_filter),
         Call("set", "live", "align_top_strategy", p.align_top_strategy),
         Call("set", "live", "align_filter_strategy", p.align_filter_strategy)>>

(* The update error reported after the live object was written *)
updateError_AfterWrites(v, live, p) ==
    [log |-> v.log \o <<Message("Update error")>>,
     live |-> ApplyCalls(live, liveWrites(p)), exc |-> "none"]

(* _updateModule, lines 695-701: the validation build raised *)
updateError(v, live, p) ==
    [log |-> v.log \o <<Message("Update error")>>, live |-> live,
     exc |-> "none"]

(* The I/O error of the update path undoing the writes made on the live   *)
(* object.                                                                 *)
updateIOError_RollsBack(pre, io, live) ==
    [log |-> pre \o io.log \o <<Message("I/Os error")>>, live |-> live,
     exc |-> "none"]

(* _updateModule, lines 732-738: building the I/O on the live object       *)
(* raised; pre is the log before the I/O, live the object before the       *)
(* commit.                                                                 *)
updateIOError(pre, io, live) ==
    [log |-> pre \o io.log \o <<Message("I/Os error")>>, live |-> io.obj,
     exc |-> "none"]

(* The refresh whose failure puts the live object back as it was *)
refreshStep_Undoes(pre, obj, live, plan) ==
    [log |-> pre \o <<ParentCall("refresh", plan)>>
             \o (IF plan.parent THEN <<Message("Refresh error")>> ELSE <<>>),
     live |-> IF plan.parent THEN live ELSE obj, exc |-> "none"]

(* The update ending with the owner's buildModule in place of refresh *)
refreshStep_Registers(pre, obj, live, plan) ==
    [log |-> pre \o <<ParentCall("buildModule", plan)>>
             \o (IF plan.parent THEN <<Message("Refresh error")>> ELSE <<>>),
     live |-> obj, exc |-> "none"]

(* _updateModule, lines 740-750: parent.refresh() in its try block; pre is *)
(* the log so far, obj the live object as written, live the object before  *)
(* the commit.                                                             *)
refreshStep(pre, obj, live, plan) ==
    [log |-> pre \o <<ParentCall("refresh", plan)>>
             \o (IF plan.parent THEN <<Message("Refresh error")>> ELSE <<>>),
     live |-> obj, exc |-> "none"]

(* _updateModule.  live: the CAD object after the method.                  *)
_updateModule(p, live, dIn, dOut, dTop, plan) ==
    LET v == _buildCADObject(p, "tmp", plan)
    IN IF v.exc # "none"
       THEN updateError(v, live, p)
       ELSE LET w == Exec(live, liveWrites(p), v.n, plan)
            IN IF w.exc # "none"
               THEN [log |-> v.log \o w.log, live |-> w.obj, exc |-> w.exc]
               ELSE LET io == buildIO(w.obj, "live", dIn, dOut, dTop, w.n, plan)
                    IN IF io.exc # "none"
                       THEN updateIOError(v.log \o w.log, io, live)
                       ELSE refreshStep(v.log \o w.log \o io.log, io.obj,
                                        live, plan)

----------------------------------------------------------------------------
(* Inputs of the model: what the user and the I/O dialogs can hand in.     *)

(* AddIODialogFR hands addInput / addOutput a name and a descriptor with   *)
(* the type of the I/O as the table shows it.                              *)
SideDesc(type_io, h) ==
    [type_io |-> type_io, height_per |-> h, angle |-> 0, diameter |-> 2,
     external |-> FALSE]

InputChoices ==
    {<<"in1", SideDesc(SIDE_INPUT, 25)>>, <<"in1", SideDesc(SIDE_INPUT, 50)>>,
     <<"in2", SideDesc(SIDE_INPUT, 50)>>}

OutputChoices ==
    {<<"out1", SideDesc(SIDE_OUTPUT, 25)>>, <<"out1", SideDesc(SIDE_OUTPUT, 50)>>,
     <<"default", SideDesc(SIDE_OUTPUT, 50)>>}

(* AddTopIODialogFR: a custom inlet, or a luer inlet with no dimensions    *)
CustomDesc == [type_io |-> "custom", diameter |-> 2, length |-> 10, walls |-> 1]

LuerDesc == [type_io |-> "luer", diameter |-> 0, length |-> 0, walls |-> 0]

TopInletChoices ==
    {<<"t1", CustomDesc>>, <<"t1", LuerDesc>>, <<"t2", CustomDesc>>}

(* Values the user types in the spin boxes *)
SpinValues ==
    [spin_vol |-> {Hundredths(20), Hundredths(50)},
     spin_h_filter |-> {Hundredths(3), Hundredths(5)},
     spin_d_filter |-> {Hundredths(20), Hundredths(10)},
     spin_d_can |-> {D_CAN, Hundredths(5)},
     spin_r |-> {Hundredths(5), Hundredths(7)}]

SpinFields == DOMAIN SpinValues

(* The CAD objects the editor is opened on: modules built by the           *)
(* collaborator, one with a user-set radius and a connected input, one     *)
(* with a threaded top, one with an unconstrained radius.                  *)
LiveA ==
    LET o == ApplyCalls(
               Construct([volume |-> Hundredths(20), type_top |-> "top_A",
                          type_bottom |-> "flat", d_filter |-> Hundredths(20),
                          h_filter |-> Hundredths(3), d_can |-> D_CAN,
                          align_top_strategy |-> "expand",
                          align_filter_strategy |-> "adapt"]),
               <<Call("set", "live", "r", Hundredths(5)),
                 Call("addInputPercentage", "live", "in1",
                      [height_per |-> 50, angle |-> 0, diameter |-> 2,
                       external |-> FALSE])>>)
    IN [o EXCEPT !.inputs[1].d.connected = TRUE]

LiveB ==
    ApplyCalls(
        Construct([volume |-> Hundredths(50), type_top |-> "top_threaded",
                   type_bottom |-> "round_ext", d_filter |-> Hundredths(10),
                   h_filter |-> Hundredths(5), d_can |-> Hundredths(5),
                   align_top_strategy |-> "lift",
                   align_filter_strategy |-> "lift"]),
        <<Call("addOutputPercentage", "live", "out1",
               [height_per |-> 25, angle |-> 0, diameter |-> 2,
                external |-> FALSE]),
          Call("addCustomTopInlet", "live", "t1",
               [type_io |-> "custom", diameter |-> 2, length |-> 10,
                walls |-> 1])>>)

LiveC ==
    ApplyCalls(
        Construct([volume |-> Hundredths(20), type_top |-> "top_custom",
                   type_bottom |-> "flat", d_filter |-> Hundredths(20),
                   h_filter |-> Hundredths(3), d_can |-> D_CAN,
                   align_top_strategy |-> "lift",
                   align_filter_strategy |-> "adapt"]),
        <<Call("addCustomTopInlet", "live", "t1",
               [type_io |-> "luer", diameter |-> 0, length |-> 0,
                walls |-> 0])>>)

LiveObjects == {LiveA, LiveB, LiveC}

(* The failures a commit can meet.  Its calls on the CAD objects are       *)
(* numbered from 1: first nPlain calls (construction, writes, side inputs  *)
(* and outputs), whose handling does not depend on what is raised, then    *)
(* nTop calls (top inlets and auto-placement), whose handling does.  at is *)
(* the call that raises (0: none), kind what it raises, parent whether the *)
(* owner's call raises.                                                    *)
Plans(nPlain, nTop) ==
    {[at |-> 0, kind |-> OtherError, parent |-> b] : b \in BOOLEAN}
    \cup [at : 1..nPlain, kind : {OtherError}, parent : {FALSE}]
    \cup [at : (nPlain + 1)..(nPlain + nTop), kind : ExcKinds, parent : BOOLEAN]

(* The calls of a commit of snapshot p before its first top inlet *)
PlainCalls(p) ==
    Len(<<"construct">>) + (IF radiusIsSet(p) THEN 1 ELSE 0)
    + (IF cad_obj = <<>> THEN 0 ELSE Len(liveWrites(p)))
    + Len(dict_inputs)
    + Len(SelectSeq(dict_outputs, LAMBDA e : ~skipOutput(e.name)))

TopCalls == Len(dict_top_inlets) + Len(<<"autoPlaceTopInlets">>)

(* The form as it was when the dialog opened: the CAD object's scalar      *)
(* parameters do not change while the dialog is open.                      *)
Baseline == IF cad_obj = <<>> THEN initUI ELSE restoreParams(initUI, cad_obj[1])

EditFields ==
    SpinFields \cup {"combo_align_top_strategy", "combo_align_filter_strategy"}

EditCount(u) == Cardinality({f \in EditFields : u[f] # Baseline[f]})

----------------------------------------------------------------------------
(* __init__: test is whether there is no owner, independently of the CAD   *)
(* object; initUI, the empty registries, then restoreParams                *)

Init ==
    /\ \E obj \in {<<>>} \cup {<<o>> : o \in LiveObjects} :
         /\ cad_obj = obj
         /\ test \in BOOLEAN
         /\ IF obj = <<>>
            THEN /\ ui = initUI
                 /\ params = <<>>
                 /\ dict_inputs = <<>>
                 /\ dict_outputs = <<>>
                 /\ dict_top_inlets = <<>>
                 /\ table_io = <<>>
            ELSE LET io == restoreIO(obj[1])
                 IN /\ ui = restoreParams(initUI, obj[1])
                    /\ params = restoredParams(obj[1])
                    /\ dict_inputs = io.dict_inputs
                    /\ dict_outputs = io.dict_outputs
                    /\ dict_top_inlets = io.dict_top_inlets
                    /\ table_io = io.table_io
    /\ selected = 0
    /\ phase = "open"
    /\ log = <<>>
    /\ built = <<>>
    /\ err = "none"

ioVars == <<dict_inputs, dict_outputs, dict_top_inlets, table_io, selected, cad_obj>>

commitVars == <<params, log, built, phase, test>>

(* The user picks another top in combo_top *)
UserSelectTop ==
    /\ phase = "open"
    /\ \E i \in 1..Len(TOPS) :
         /\ TOPS[i] # ui.combo_top
         /\ ui' = setTopIndex(ui, i)
    /\ err' = "none"
    /\ UNCHANGED <<ioVars, commitVars>>

(* The user picks another bottom in combo_bottom *)
UserSelectBottom ==
    /\ phase = "open"
    /\ \E i \in 1..Len(BOTTOMS) :
         /\ BOTTOMS[i] # ui.combo_bottom
         /\ ui' = setBottomIndex(ui, i)
    /\ err' = "none"
    /\ UNCHANGED <<ioVars, commitVars>>

(* The user clicks check_r_constrained, which must be enabled *)
UserToggleConstraint ==
    /\ phase = "open"
    /\ ui.check_enabled
    /\ ui' = setCheckState(ui, ~ui.check_r_constrained)
    /\ err' = "none"
    /\ UNCHANGED <<ioVars, commitVars>>

(* The user types a value in a spin box, which must be enabled *)
UserEditSpin ==
    /\ phase = "open"
    /\ \E f \in SpinFields : \E v \in SpinValues[f] :
         /\ f = "spin_r" => ui.spin_r_enabled
         /\ f = "spin_d_can" => ui.spin_d_can_enabled
         /\ v # ui[f]
         /\ EditCount([ui EXCEPT ![f] = v]) <= MaxEdits
         /\ ui' = [ui EXCEPT ![f] = v]
    /\ err' = "none"
    /\ UNCHANGED <<ioVars, commitVars>>

(* The user picks a strategy in one of the two strategy combo boxes *)
UserSelectStrategy ==
    /\ phase = "open"
    /\ \E f \in {"combo_align_top_strategy", "combo_align_filter_strategy"} :
       \E v \in Range(IF f = "combo_align_top_strategy"
                      THEN ALIGN_TOP_STRATEGIES ELSE ALIGN_FILTER_STRATEGIES) :
         /\ v # ui[f]
         /\ EditCount([ui EXCEPT ![f] = v]) <= MaxEdits
         /\ ui' = [ui EXCEPT ![f] = v]
    /\ err' = "none"
    /\ UNCHANGED <<ioVars, commitVars>>

(* The result of a handler of the I/O tab becomes the state *)
Becomes(s) ==
    /\ dict_inputs' = s.dict_inputs
    /\ dict_outputs' = s.dict_outputs
    /\ dict_top_inlets' = s.dict_top_inlets
    /\ table_io' = s.table_io
    /\ selected' = s.selected
    /\ cad_obj' = s.cad_obj
    /\ err' = s.exc

(* The I/O dialog is accepted for a side input *)
DialogAddInput ==
    /\ phase = "open"
    /\ \E c \in InputChoices :
         /\ Has(dict_inputs, c[1]) \/ Len(table_io) < MaxRows
         /\ Becomes(addInput(Self, c[1], c[2]))
    /\ UNCHANGED <<ui, commitVars>>

(* The I/O dialog is accepted for a side output *)
DialogAddOutput ==
    /\ phase = "open"
    /\ \E c \in OutputChoices :
         /\ Has(dict_outputs, c[1]) \/ Len(table_io) < MaxRows
         /\ Becomes(addOutput(Self, c[1], c[2]))
    /\ UNCHANGED <<ui, commitVars>>

(* The top I/O dialog is accepted *)
DialogAddTopInlet ==
    /\ phase = "open"
    /\ \E c \in TopInletChoices :
         /\ Has(dict_top_inlets, c[1]) \/ Len(table_io) < MaxRows
         /\ Becomes(addTopInlet(Self, c[1], c[2]))
    /\ UNCHANGED <<ui, commitVars>>

(* The user selects a row of the table; the row of the default output      *)
(* cannot be selected.                                                     *)
UserSelectRow ==
    /\ phase = "open"
    /\ \E i \in 1..Len(table_io) :
         /\ table_io[i].selectable
         /\ i # selected
         /\ selected' = i
    /\ err' = "none"
    /\ UNCHANGED <<ui, dict_inputs, dict_outputs, dict_top_inlets, table_io,
                   cad_obj, commitVars>>

(* The user clicks "Delete I/O" *)
UserDeleteIO ==
    /\ phase = "open"
    /\ Becomes(deleteIO(Self))
    /\ UNCHANGED <<ui, commitVars>>

(* buildModule, lines 625-633: the value _buildNewModule / _updateModule   *)
(* returns is not looked at and self.close() follows; it is not reached    *)
(* when an exception leaves the method.                                    *)
phaseAfter(r) == IF r.exc = "none" THEN "closed" ELSE "raised"

(* buildModule building the module in standalone mode too *)
commitPath_IgnoresTest(t, obj) ==
    IF obj = <<>> THEN "create" ELSE "update"

(* buildModule, lines 625-630: what the commit runs after readForm         *)
commitPath(t, obj) ==
    IF t THEN "none" ELSE IF obj = <<>> THEN "create" ELSE "update"

(* The user clicks OK: buildModule *)
buildModule ==
    /\ phase = "open"
    /\ LET p == readForm(ui)
       IN \E plan \in Plans(PlainCalls(p), TopCalls) :
            /\ params' = p
            /\ IF commitPath(test, cad_obj) = "none"
               THEN /\ log' = <<>>
                    /\ built' = built
                    /\ cad_obj' = cad_obj
                    /\ phase' = "closed"
                    /\ err' = "none"
               ELSE IF commitPath(test, cad_obj) = "create"
               THEN LET r == _buildNewModule(p, dict_inputs, dict_outputs,
                                             dict_top_inlets, plan)
                    IN /\ log' = r.log
                       /\ built' = r.built
                       /\ cad_obj' = cad_obj
                       /\ phase' = phaseAfter(r)
                       /\ err' = r.exc
               ELSE LET r == _updateModule(p, cad_obj[1], dict_inputs,
                                           dict_outputs, dict_top_inlets, plan)
                    IN /\ log' = r.log
                       /\ built' = built
                       /\ cad_obj' = <<r.live>>
                       /\ phase' = phaseAfter(r)
                       /\ err' = r.exc
    /\ UNCHANGED <<ui, dict_inputs, dict_outputs, dict_top_inlets, table_io,
                   selected, test>>

(* deleteModule, lines 642-646: self.parent.deleteModule(self.cad_obj),    *)
(* not in a try, then self.close().  With no owner self.parent is None and *)
(* the attribute access raises before any call is made.                    *)
deleteModuleStep(t, fails) ==
    IF t
    THEN [log |-> <<>>, exc |-> "AttributeError"]
    ELSE LET c == ParentCall("deleteModule", [parent |-> fails])
         IN [log |-> <<c>>, exc |-> c.exc]

(* The user clicks Delete, shown when a CAD object is edited *)
deleteModule ==
    /\ phase = "open"
    /\ cad_obj # <<>>
    /\ \E fails \in BOOLEAN :
         LET r == deleteModuleStep(test, fails)
         IN /\ log' = r.log
            /\ phase' = phaseAfter(r)
            /\ err' = r.exc
    /\ UNCHANGED <<ui, ioVars, params, built, test>>

(* The user closes the dialog without committing *)
UserClose ==
    /\ phase = "open"
    /\ phase' = "closed"
    /\ err' = "none"
    /\ UNCHANGED <<ui, ioVars, params, log, built, test>>

Next ==
    \/ UserSelectTop
    \/ UserSelectBottom
    \/ UserToggleConstraint
    \/ UserEditSpin
    \/ UserSelectStrategy
    \/ DialogAddInput
    \/ DialogAddOutput
    \/ DialogAddTopInlet
    \/ UserSelectRow
    \/ UserDeleteIO
    \/ buildModule
    \/ deleteModule
    \/ UserClose

Spec == Init /\ [][Next]_vars

(* The handlers of the form and those of the I/O tab act on disjoint parts *)
(* of the state, and a commit reads both.  SpecForm follows the sessions   *)
(* in which the user works on the form only, SpecIO those in which the     *)
(* user works on the I/O tab only; each ends as any session does.          *)
NextForm ==
    \/ UserSelectTop
    \/ UserSelectBottom
    \/ UserToggleConstraint
    \/ UserEditSpin
    \/ UserSelectStrategy
    \/ buildModule
    \/ deleteModule
    \/ UserClose

SpecForm == Init /\ [][NextForm]_vars

NextIO ==
    \/ DialogAddInput
    \/ DialogAddOutput
    \/ DialogAddTopInlet
    \/ UserSelectRow
    \/ UserDeleteIO
    \/ buildModule
    \/ deleteModule
    \/ UserClose

SpecIO == Init /\ [][NextIO]_vars

----------------------------------------------------------------------------
(* What the log of a commit shows *)

Messages == SelectSeq(log, LAMBDA e : e.op = "message")

AttachOps == {"addInputPercentage", "addOutputPercentage", "addCustomTopInlet"}

(* Entries of the log with the given op, target and name *)
Calls(op, tgt, arg) ==
    {i \in 1..Len(log) : log[i].op = op /\ log[i].tgt = tgt /\ log[i].arg = arg}

(* The build of the object tgt ("tmp" or "new") raised *)
BuildRaised(tgt) ==
    \E i \in 1..Len(log) :
        /\ log[i].tgt = tgt
        /\ log[i].op \in {"construct", "set"}
        /\ log[i].exc # "none"

(* A commit ran and nothing it called raised or was reported *)
CleanCommit ==
    /\ log # <<>>
    /\ Messages = <<>>
    /\ \A i \in 1..Len(log) : log[i].exc = "none"

CreateMode == cad_obj = <<>> /\ ~test

----------------------------------------------------------------------------
(* C1: on the update path, when the validation build raises, the commit    *)
(* reports exactly one "Update error", the live object is the same before  *)
(* and after the commit, and no call is made on the live object or on the  *)
(* owner.                                                                  *)
C1_ValidationFailureLeavesLiveObject ==
    [][(phase = "open" /\ phase' # "open" /\ cad_obj # <<>> /\ BuildRaised("tmp")')
       => /\ cad_obj' = cad_obj
          /\ Messages' = <<Message("Update error")>>
          /\ \A i \in 1..Len(log') : log'[i].tgt \notin {"live", "parent"}]_vars

(* A commit whose validation build raised, of a snapshot that differs from *)
(* the live object.                                                        *)
C1_Witness ==
    /\ phase = "closed"
    /\ cad_obj # <<>>
    /\ BuildRaised("tmp")
    /\ params.type_top # cad_obj[1].type_top

(* C2: when a module with r_constrained = true and a non-threaded top is   *)
(* committed with a threaded top and nothing fails, the live object ends   *)
(* with r_constrained = true and the engine makes no write of r on it.     *)
C2_ThreadedTopKeepsConstraint ==
    [][(/\ phase = "open" /\ phase' = "closed"
        /\ cad_obj # <<>>
        /\ cad_obj[1].r_constrained
        /\ cad_obj[1].type_top \notin THREADED_TOPS
        /\ params'.type_top \in THREADED_TOPS
        /\ CleanCommit')
       => /\ cad_obj'[1].r_constrained
          /\ cad_obj'[1].type_top \in THREADED_TOPS
          /\ \A i \in 1..Len(log') :
                ~(log'[i].op = "set" /\ log'[i].tgt = "live" /\ log'[i].arg = "r")]_vars

(* Such a commit: the object had the user's radius, the form still held it *)
(* when the top was changed, and the object now has the derived radius.    *)
C2_Witness ==
    /\ phase = "closed"
    /\ CleanCommit
    /\ cad_obj # <<>>
    /\ params.type_top \in THREADED_TOPS
    /\ params.r = Hundredths(5)
    /\ cad_obj[1].r_constrained
    /\ cad_obj[1].r # 5
    /\ Calls("refresh", "parent", "") # {}

(* C3: whenever the selected top is threaded, the radius constraint is     *)
(* checked, its check box is disabled and the radius cannot be edited.     *)
C3_ThreadedTopForcesConstraint ==
    ui.combo_top \in THREADED_TOPS
        => /\ ui.check_r_constrained
           /\ ~ui.check_enabled
           /\ ~ui.spin_r_enabled

(* The top was changed to a threaded one on a module whose radius was not  *)
(* constrained.                                                            *)
C3_Witness ==
    /\ cad_obj # <<>>
    /\ ~cad_obj[1].r_constrained
    /\ ui.combo_top \in THREADED_TOPS
    /\ ui.check_r_constrained
    /\ phase = "open"

(* C4: on the create path, when the construction raises, the commit        *)
(* reports exactly one "Creation error", attaches nothing and does not     *)
(* call the owner's buildModule.                                           *)
C4_CreationErrorStopsCommit ==
    (CreateMode /\ BuildRaised("new"))
        => /\ Messages = <<Message("Creation error")>>
           /\ \A i \in 1..Len(log) :
                 log[i].op \notin AttachOps \cup {"autoPlaceTopInlets", "buildModule"}
           /\ built = <<>>

(* The construction raised with an input, an output or an inlet registered *)
C4_Witness ==
    /\ CreateMode
    /\ BuildRaised("new")
    /\ Len(dict_inputs) + Len(dict_top_inlets) > 0

----------------------------------------------------------------------------
(* Entries of the log at which an attachment raised *)
FailedAttach == {i \in 1..Len(log) : log[i].op \in AttachOps /\ log[i].exc # "none"}

(* A top inlet of the log raised the incompatibility condition *)
Swallowed(i) ==
    log[i].op = "addCustomTopInlet" /\ log[i].exc = IncompatibilityError

(* Object o holds every registered input, output and top inlet *)
AllRegisteredAttached(o) ==
    /\ Keys(dict_inputs) \subseteq Keys(o.inputs)
    /\ Keys(dict_outputs) \subseteq Keys(o.outputs)
    /\ Keys(dict_top_inlets) \subseteq Keys(o.top_inlets)

(* C5, as claimed: on the create path any failed attachment of an input,   *)
(* an output or a top inlet discards the object and reports an I/O error,  *)
(* and the owner never receives an object with part of the I/O attached.   *)
C5_Original ==
    CreateMode
        => /\ FailedAttach # {}
                => (built = <<>> /\ Message("I/Os error") \in Range(log))
           /\ built # <<>> => AllRegisteredAttached(built[1])

(* C5, amended: on the create path a failed attachment of an input or an   *)
(* output, or of a top inlet with anything but the incompatibility         *)
(* condition, discards the object and reports an I/O error; when a top     *)
(* inlet raises the incompatibility condition nothing is reported and the  *)
(* owner is handed the object with every registered input and output and   *)
(* the top inlets attached before that one; with no failed attachment the  *)
(* object handed over holds all the registered I/O.                        *)
C5_AttachFailureDiscardsUnlessIncompatible ==
    CreateMode
        => /\ \A i \in FailedAttach :
                IF Swallowed(i)
                THEN /\ Messages = <<>>
                     /\ Len(built) = 1
                     /\ Keys(dict_inputs) \subseteq Keys(built[1].inputs)
                     /\ Keys(dict_outputs) \subseteq Keys(built[1].outputs)
                     /\ Keys(built[1].top_inlets) =
                          {log[j].arg : j \in {k \in 1..(i - 1) :
                                                log[k].op = "addCustomTopInlet"}}
                     /\ log[i].arg \notin Keys(built[1].top_inlets)
                ELSE /\ built = <<>>
                     /\ Messages = <<Message("I/Os error")>>
                     /\ Calls("buildModule", "parent", "") = {}
           /\ (built # <<>> /\ FailedAttach = {})
                => AllRegisteredAttached(built[1])

(* The first registered top inlet raised the incompatibility condition and *)
(* the owner was handed the object with the registered input and no top    *)
(* inlet.                                                                  *)
C5_Witness ==
    /\ CreateMode
    /\ \E i \in FailedAttach : Swallowed(i)
    /\ Len(built) = 1
    /\ Len(dict_inputs) = 1
    /\ Len(built[1].inputs) = 1
    /\ Len(dict_top_inlets) = 1
    /\ Len(built[1].top_inlets) = 0

(* C6, as claimed: on the create path buildModule is never invoked after   *)
(* an error (creation, I/O or auto-placement) has been reported.           *)
C6_Original ==
    CreateMode
        => \A i, j \in 1..Len(log) :
              (i < j /\ log[j].op = "buildModule") => log[i].op # "message"

(* C6, amended: on the create path buildModule is never invoked in a       *)
(* commit that reported a creation or an I/O error; after an               *)
(* auto-placement error has been reported buildModule is still invoked,    *)
(* with the object.                                                        *)
C6_BuildModuleUnlessCreationOrIOError ==
    CreateMode
        => /\ (\E i \in 1..Len(log) :
                  log[i] \in {Message("Creation error"), Message("I/Os error")})
                => (built = <<>> /\ Calls("buildModule", "parent", "") = {})
           /\ \A i \in 1..Len(log) :
                log[i] = Message("Auto-placement error")
                    => /\ Len(built) = 1
                       /\ \E j \in (i + 1)..Len(log) : log[j].op = "buildModule"

(* An auto-placement error was reported and the object handed over *)
C6_Witness ==
    /\ CreateMode
    /\ Message("Auto-placement error") \in Range(log)
    /\ Len(built) = 1
    /\ Len(dict_top_inlets) > 0

(* C7: a create commit in which nothing raises invokes buildModule exactly *)
(* once, with an object that received exactly one attach call per          *)
(* registered input, per registered output other than "default" and per    *)
(* registered top inlet, and no attach call for "default".                 *)
C7_CleanCreateAttachesEachOnce ==
    (CreateMode /\ CleanCommit)
        => /\ Cardinality(Calls("buildModule", "parent", "")) = 1
           /\ Len(built) = 1
           /\ \A n \in Keys(dict_inputs) :
                 Cardinality(Calls("addInputPercentage", "new", n)) = 1
           /\ \A n \in Keys(dict_outputs) \ {"default"} :
                 Cardinality(Calls("addOutputPercentage", "new", n)) = 1
           /\ \A n \in Keys(dict_top_inlets) :
                 Cardinality(Calls("addCustomTopInlet", "new", n)) = 1
           /\ Calls("addOutputPercentage", "new", "default") = {}
           /\ Cardinality({i \in 1..Len(log) : log[i].op \in AttachOps}) =
                 Len(dict_inputs) + Len(dict_top_inlets)
                 + Cardinality(Keys(dict_outputs) \ {"default"})
           /\ Keys(built[1].inputs) = Keys(dict_inputs)
           /\ Keys(built[1].outputs) = Keys(dict_outputs) \cup {"default"}
           /\ Keys(built[1].top_inlets) = Keys(dict_top_inlets)

(* Such a commit with an output registered under the name "default" *)
C7_Witness ==
    /\ CreateMode
    /\ CleanCommit
    /\ Has(dict_outputs, "default")
    /\ Len(dict_inputs) + Len(dict_top_inlets) = 1
    /\ Len(built) = 1

(* No name leaves a registry in the step *)
KeysKept ==
    /\ Keys(dict_inputs) \subseteq Keys(dict_inputs')
    /\ Keys(dict_outputs) \subseteq Keys(dict_outputs')
    /\ Keys(dict_top_inlets) \subseteq Keys(dict_top_inlets')

(* C8, as claimed: before commit no add, update or delete of an I/O entry  *)
(* changes the live object; only the registries and the table change.      *)
C8_Original ==
    [][phase' = "open" => cad_obj' = cad_obj]_vars

(* C8, amended: before commit an add or an update of an I/O entry changes  *)
(* the registries and the table and never the live object; a delete of a   *)
(* selected entry other than the default output removes that entry from    *)
(* the live object at once, and changes nothing else of it.                *)
C8_OnlyDeleteTouchesLiveObject ==
    [][phase' = "open"
        => /\ KeysKept => cad_obj' = cad_obj
           /\ cad_obj' # cad_obj
                => /\ Len(cad_obj) = 1 /\ Len(cad_obj') = 1
                   /\ \E n \in Keys(dict_inputs) \cup Keys(dict_outputs)
                               \cup Keys(dict_top_inlets) :
                        \/ /\ n \notin Keys(dict_inputs')
                           /\ cad_obj'[1] =
                                [cad_obj[1] EXCEPT !.inputs = Del(@, n)]
                        \/ /\ n \notin Keys(dict_outputs')
                           /\ n # "default"
                           /\ cad_obj'[1] =
                                [cad_obj[1] EXCEPT !.outputs = Del(@, n)]
                        \/ /\ n \notin Keys(dict_top_inlets')
                           /\ cad_obj'[1] =
                                [cad_obj[1] EXCEPT !.top_inlets = Del(@, n)]
      ]_vars

(* An open edit session in which a deleted input has left the live object  *)
(* and an added input has not reached it.                                  *)
C8_Witness ==
    /\ phase = "open"
    /\ Len(cad_obj) = 1
    /\ ~Has(cad_obj[1].inputs, "in1")
    /\ ~Has(dict_inputs, "in1")
    /\ Has(dict_inputs, "in2")
    /\ ~Has(cad_obj[1].inputs, "in2")

(* Rows of the table whose type is one of types *)
RowCount(tbl, types) ==
    Cardinality({i \in 1..Len(tbl) : tbl[i].type \in types})

(* A registry changed without losing a name: an add or an update *)
AddedOrUpdated(old, new) == old # new /\ Keys(old) \subseteq Keys(new)

(* The add or update of one name n with a descriptor of choices: a new     *)
(* name grows the registry and the rows of its kind by one; a known name   *)
(* replaces the descriptor and leaves the table as it was.                 *)
AddCorrect(old, new, tblOld, tblNew, types, choices) ==
    \E c \in choices :
        /\ Has(new, c[1])
        /\ Val(new, c[1]) = c[2]
        /\ \A m \in Keys(new) \ {c[1]} :
              Has(old, m) /\ old[Get(old, m)] = new[Get(new, m)]
        /\ IF Has(old, c[1])
           THEN /\ Len(new) = Len(old)
                /\ tblNew = tblOld
           ELSE /\ Len(new) = Len(old) + 1
                /\ Len(tblNew) = Len(tblOld) + 1
                /\ RowCount(tblNew, types) = RowCount(tblOld, types) + 1
                /\ \A i \in 1..Len(tblOld) : tblNew[i] = tblOld[i]
                /\ tblNew[Len(tblNew)].name = c[1]

(* C9: an add of an input, an output or a top inlet under a name the       *)
(* registry of that kind does not hold grows that registry and the rows of *)
(* that kind by exactly one; under a name it holds, the descriptor is      *)
(* replaced and the registry size and the table stay as they were; the     *)
(* registries of the other two kinds are untouched either way.             *)
C9_AddGrowsOrReplaces ==
    [][phase' = "open"
        => /\ AddedOrUpdated(dict_inputs, dict_inputs')
                => /\ AddCorrect(dict_inputs, dict_inputs', table_io,
                                 table_io', {SIDE_INPUT}, InputChoices)
                   /\ dict_outputs' = dict_outputs
                   /\ dict_top_inlets' = dict_top_inlets
           /\ AddedOrUpdated(dict_outputs, dict_outputs')
                => /\ AddCorrect(dict_outputs, dict_outputs', table_io,
                                 table_io', {SIDE_OUTPUT, DEF_OUTPUT},
                                 OutputChoices)
                   /\ dict_inputs' = dict_inputs
                   /\ dict_top_inlets' = dict_top_inlets
           /\ AddedOrUpdated(dict_top_inlets, dict_top_inlets')
                => /\ AddCorrect(dict_top_inlets, dict_top_inlets', table_io,
                                 table_io', {TOP_LUER, TOP_CUSTOM},
                                 TopInletChoices)
                   /\ dict_inputs' = dict_inputs
                   /\ dict_outputs' = dict_outputs
      ]_vars

(* A top inlet restored from the live object as custom was added again as  *)
(* luer: the registry holds the new descriptor, still one entry, and the   *)
(* table still shows its one row.                                          *)
C9_Witness ==
    /\ phase = "open"
    /\ Len(cad_obj) = 1
    /\ Has(cad_obj[1].top_inlets, "t1")
    /\ cad_obj[1].top_inlets[1].d.type_io = "custom"
    /\ Len(dict_top_inlets) = 1
    /\ Val(dict_top_inlets, "t1") = LuerDesc
    /\ RowCount(table_io, {TOP_CUSTOM, TOP_LUER}) = 1

(* Entries of the outputs registry named "default" *)
DefaultCount ==
    Cardinality({i \in 1..Len(dict_outputs) : dict_outputs[i].name = "default"})

(* C10, as claimed: an open window's outputs registry holds exactly one    *)
(* entry named "default", whatever was added, updated or deleted.          *)
C10_Original ==
    phase = "open" => DefaultCount = 1

(* C10, amended: when the window edits a live object, whose outputs hold   *)
(* the default output, the outputs registry holds exactly one entry named  *)
(* "default" after any sequence of adds, updates and deletes, its row      *)
(* cannot be selected, and no delete removes it from the live object; when *)
(* the window creates a module the registry starts without that entry and  *)
(* holds at most one.                                                      *)
C10_DefaultOutputKeptInEditMode ==
    phase = "open"
        => /\ DefaultCount <= 1
           /\ cad_obj # <<>>
                => /\ DefaultCount = 1
                   /\ Has(cad_obj[1].outputs, "default")
                   /\ \A i \in 1..Len(table_io) :
                         table_io[i].name = "default"
                             => /\ table_io[i].type = DEF_OUTPUT
                                /\ ~table_io[i].selectable
                                /\ selected # i

(* An edit session in which another output was deleted, from the registry  *)
(* and from the live object, and the default output is still there.        *)
C10_Witness ==
    /\ phase = "open"
    /\ Len(cad_obj) = 1
    /\ cad_obj[1].type_top = "top_threaded"
    /\ ~Has(cad_obj[1].outputs, "out1")
    /\ ~Has(dict_outputs, "out1")
    /\ DefaultCount = 1
    /\ Has(cad_obj[1].outputs, "default")

(* Names a registry holds before the step and no longer after it *)
Removed(old, new) == Keys(old) \ Keys(new)

RemovedNames ==
    Removed(dict_inputs, dict_inputs') \cup Removed(dict_outputs, dict_outputs')
    \cup Removed(dict_top_inlets, dict_top_inlets')

(* C11, as claimed: the first delete of a selected entry other than the    *)
(* default output removes it from the registry of its kind and from the    *)
(* table, and leaves nothing selected; a delete with nothing selected      *)
(* changes neither the registries, the table nor the live object.          *)
C11_Original ==
    [][(phase = "open" /\ phase' = "open")
        => /\ RemovedNames # {}
                => /\ selected # 0
                   /\ RemovedNames = {table_io[selected].name}
                   /\ table_io' = RemoveAt(table_io, selected)
                   /\ selected' = 0
           /\ selected = 0
                => /\ RemovedNames = {}
                   /\ Len(table_io') >= Len(table_io)
                   /\ cad_obj' = cad_obj
      ]_vars

(* C12: a change of the top to a threaded one, whatever the check box and  *)
(* the radius field were before, ends with the constraint checked, the     *)
(* check box disabled and the radius field disabled.                       *)
C12_ThreadedTopCascade ==
    [][(ui.combo_top \notin THREADED_TOPS /\ ui'.combo_top \in THREADED_TOPS)
        => /\ ui'.check_r_constrained
           /\ ~ui'.check_enabled
           /\ ~ui'.spin_r_enabled
           /\ ui'.spin_r = ui.spin_r
      ]_vars

(* The top was changed to a threaded one on a module restored with the     *)
(* constraint checked and the radius field enabled: the check box emitted  *)
(* no signal and the radius field was disabled by topTypeChanged itself.   *)
C12_Witness ==
    /\ phase = "open"
    /\ cad_obj # <<>>
    /\ cad_obj[1].r_constrained
    /\ cad_obj[1].type_top \notin THREADED_TOPS
    /\ Baseline.spin_r_enabled
    /\ ui.combo_top \in THREADED_TOPS
    /\ ~ui.spin_r_enabled

(* C13, as claimed: the radius field is enabled exactly when the           *)
(* constraint is checked and the selected top is not threaded.             *)
C13_Original ==
    phase = "open"
        => (ui.spin_r_enabled
              <=> (ui.check_r_constrained /\ ui.combo_top \notin THREADED_TOPS))

(* C14: in every state of the open editor, the first one and the one after *)
(* a restore included, the internal pipe diameter can be edited exactly    *)
(* when the selected bottom is one of the bottoms with an internal pipe.   *)
C14_PipeDiameterEditableIffPipe ==
    phase = "open"
        => (ui.spin_d_can_enabled <=> ui.combo_bottom \in BOTTOMS_PIPE)

(* A module restored with a bottom without pipe, the field disabled, on    *)
(* which the user picked a bottom with a pipe: the field is enabled again. *)
C14_Witness ==
    /\ phase = "open"
    /\ cad_obj # <<>>
    /\ cad_obj[1].type_bottom \notin BOTTOMS_PIPE
    /\ ~Baseline.spin_d_can_enabled
    /\ ui.combo_bottom \in BOTTOMS_PIPE
    /\ ui.spin_d_can_enabled

(* The scalar parameters _updateModule copies from the snapshot *)
ScalarFields ==
    {"volume", "type_top", "type_bottom", "d_can", "h_filter", "d_filter",
     "align_top_strategy", "align_filter_strategy"}

(* An attach call on the live object raised and was reported *)
LiveAttachFailed ==
    /\ cad_obj # <<>>
    /\ Message("I/Os error") \in Range(log)
    /\ \E i \in 1..Len(log) :
          /\ log[i].tgt = "live"
          /\ log[i].op \in AttachOps \cup {"autoPlaceTopInlets"}
          /\ log[i].exc # "none"

(* C15: on the update path, when the validation succeeded and an I/O       *)
(* attachment then raised, one "I/Os error" is reported, no refresh is     *)
(* asked, and the live object holds the snapshot's volume, top, bottom,    *)
(* pipe diameter, filter dimensions and alignment strategies.              *)
C15_IOFailureKeepsScalarWrites ==
    LiveAttachFailed
        => /\ Messages = <<Message("I/Os error")>>
           /\ Calls("refresh", "parent", "") = {}
           /\ \A f \in ScalarFields : cad_obj[1][f] = params[f]

(* Such a commit on the module with input "in1", whose top was "top_A",    *)
(* after the user picked another top: the live object has the new top.     *)
C15_Witness ==
    /\ LiveAttachFailed
    /\ Has(cad_obj[1].inputs, "in1")
    /\ params.type_top # "top_A"
    /\ cad_obj[1].type_top = params.type_top

(* Entries of the log at which the CAD library raised while an object was  *)
(* constructed or validated, or while I/O was attached or placed.          *)
FailedBuildOrAttach ==
    {i \in 1..Len(log) :
        /\ log[i].exc # "none"
        /\ \/ log[i].tgt \in {"tmp", "new"}
           \/ log[i].op \in AttachOps \cup {"autoPlaceTopInlets"}}

(* The owner was called: buildModule or refresh *)
OwnerCalled ==
    \E i \in 1..Len(log) :
        log[i].tgt = "parent" /\ log[i].op \in {"buildModule", "refresh"}

(* C16, as claimed: every error the CAD library raises while a commit      *)
(* constructs or validates an object or attaches I/O is caught in the      *)
(* commit, produces a message, ends the commit attempt, and does not       *)
(* leave buildModule as an exception.                                      *)
C16_Original ==
    FailedBuildOrAttach # {}
        => /\ Messages # <<>>
           /\ ~OwnerCalled
           /\ phase # "raised"

(* C16, amended: every such error is caught in the commit and none leaves  *)
(* buildModule as an exception.  The incompatibility condition of a top    *)
(* inlet produces no message and the commit goes on to the owner's call;   *)
(* the constraint condition of the auto-placement produces an              *)
(* "Auto-placement error" message and the commit goes on to the owner's    *)
(* call; any other such error produces exactly one message (creation,      *)
(* update or I/O error) and ends the commit attempt before the owner's     *)
(* call.                                                                   *)
C16_CollaboratorErrorsCaught ==
    \A i \in FailedBuildOrAttach :
        /\ phase = "raised"
             => \E j \in 1..Len(log) :
                   log[j].tgt = "parent" /\ log[j].exc # "none"
        /\ IF Swallowed(i)
           THEN Messages \in {<<>>, <<Message("Refresh error")>>} /\ OwnerCalled
           ELSE IF log[i].op = "autoPlaceTopInlets" /\ log[i].exc = ConstraintError
           THEN /\ Messages # <<>>
                /\ Messages[1] = Message("Auto-placement error")
                /\ OwnerCalled
           ELSE /\ Messages \in {<<Message("Creation error")>>,
                                 <<Message("Update error")>>,
                                 <<Message("I/Os error")>>}
                /\ ~OwnerCalled
                /\ phase = "closed"

(* The update of a module one of whose top inlets raised something other   *)
(* than the incompatibility condition: reported, the commit ended.         *)
C16_Witness ==
    /\ cad_obj # <<>>
    /\ phase = "closed"
    /\ \E i \in FailedBuildOrAttach :
          /\ log[i].op = "addCustomTopInlet"
          /\ log[i].exc = ConstraintError
    /\ Messages = <<Message("I/Os error")>>

(* Positions in the log of the calls of an update commit, by kind *)
ValidationCalls == {i \in 1..Len(log) : log[i].tgt = "tmp"}

LiveSets == {i \in 1..Len(log) : log[i].tgt = "live" /\ log[i].op = "set"}

RadiusSets == {i \in LiveSets : log[i].arg \in {"r", "r_constrained"}}

LiveAttaches ==
    {i \in 1..Len(log) :
        log[i].tgt = "live" /\ log[i].op \in AttachOps \cup {"autoPlaceTopInlets"}}

Refreshes == {i \in 1..Len(log) : log[i].op = "refresh"}

(* C17: in an update commit no call is made on the live object unless the  *)
(* validation build succeeded, and then after it; the write of the radius  *)
(* or of the radius constraint comes before every other write of a scalar; *)
(* every write of a scalar comes before every attach call; the refresh     *)
(* comes after every attach call.                                          *)
C17_UpdateOrder ==
    cad_obj # <<>>
        => /\ (LiveSets \cup LiveAttaches \cup Refreshes) # {}
                => /\ ValidationCalls # {}
                   /\ \A i \in ValidationCalls : log[i].exc = "none"
           /\ \A i \in ValidationCalls : \A j \in LiveSets \cup LiveAttaches : i < j
           /\ LiveSets # {}
                => /\ Cardinality(RadiusSets) = 1
                   /\ \A i \in RadiusSets : \A j \in LiveSets \ RadiusSets : i < j
           /\ \A i \in LiveSets : \A j \in LiveAttaches : i < j
           /\ \A i \in LiveAttaches : \A j \in Refreshes : i < j
           /\ \A i \in LiveSets : \A j \in Refreshes : i < j
           /\ Cardinality(Refreshes) <= 1

(* A clean update of the module with an output and a top inlet: the radius *)
(* constraint, eight scalars, two attach calls, the placement, the refresh *)
C17_Witness ==
    /\ cad_obj # <<>>
    /\ CleanCommit
    /\ Cardinality(LiveSets) = 9
    /\ Cardinality(LiveAttaches) = 3
    /\ Cardinality(Refreshes) = 1
    /\ \E i \in RadiusSets : i = Cardinality(ValidationCalls) + 1

(* The writes of _updateModule on the live object that returned *)
LiveSetsDone == {i \in LiveSets : log[i].exc = "none"}

(* C18, as claimed: after a commit on the update path either none of the   *)
(* writes of the snapshot's scalar parameters on the live object was made  *)
(* or all of them were, also when one of the writes raises.                *)
C18_Original ==
    cad_obj # <<>>
        => \/ LiveSetsDone = {}
           \/ /\ Cardinality(LiveSetsDone) = Len(liveWrites(params))
              /\ \A f \in ScalarFields : cad_obj[1][f] = params[f]

(* Positions in the log of the calls with the given op, and their names in *)
(* the order the calls were made.                                          *)
At(op) == {i \in 1..Len(log) : log[i].op = op}

ArgsOf(op) ==
    LET sel == SelectSeq(log, LAMBDA e : e.op = op)
    IN [i \in 1..Len(sel) |-> sel[i].arg]

NamesOf(reg) == [i \in 1..Len(reg) |-> reg[i].name]

IsPrefix(a, b) == Len(a) <= Len(b) /\ a = SubSeq(b, 1, Len(a))

Before(S, T) == \A i \in S : \A j \in T : i < j

(* C19: in every commit the side inputs are attached first, then the side  *)
(* outputs other than "default", then the top inlets, then comes the one   *)
(* auto-placement call, each kind in the order of its registry; "default"  *)
(* is never passed to addOutputPercentage; a commit that reaches the       *)
(* auto-placement has attached every registered entry before it.           *)
C19_AttachOrder ==
    /\ Before(At("addInputPercentage"),
              At("addOutputPercentage") \cup At("addCustomTopInlet")
              \cup At("autoPlaceTopInlets"))
    /\ Before(At("addOutputPercentage"),
              At("addCustomTopInlet") \cup At("autoPlaceTopInlets"))
    /\ Before(At("addCustomTopInlet"), At("autoPlaceTopInlets"))
    /\ Cardinality(At("autoPlaceTopInlets")) <= 1
    /\ \A i \in At("addOutputPercentage") : log[i].arg # "default"
    /\ IsPrefix(ArgsOf("addInputPercentage"), NamesOf(dict_inputs))
    /\ IsPrefix(ArgsOf("addOutputPercentage"),
                NamesOf(SelectSeq(dict_outputs, LAMBDA e : e.name # "default")))
    /\ IsPrefix(ArgsOf("addCustomTopInlet"), NamesOf(dict_top_inlets))
    /\ At("addOutputPercentage") \cup At("addCustomTopInlet") # {}
          => ArgsOf("addInputPercentage") = NamesOf(dict_inputs)
    /\ At("addCustomTopInlet") # {}
          => ArgsOf("addOutputPercentage") =
               NamesOf(SelectSeq(dict_outputs, LAMBDA e : e.name # "default"))
    /\ At("autoPlaceTopInlets") # {}
          => /\ ArgsOf("addInputPercentage") = NamesOf(dict_inputs)
             /\ ArgsOf("addOutputPercentage") =
                  NamesOf(SelectSeq(dict_outputs, LAMBDA e : e.name # "default"))
             /\ ArgsOf("addCustomTopInlet") = NamesOf(dict_top_inlets)
    /\ CleanCommit /\ OwnerCalled
          => Cardinality(At("autoPlaceTopInlets")) = 1

(* The update of the module holding the default output, another output and *)
(* a top inlet: the output, the inlet, the placement, and no call for      *)
(* "default".                                                              *)
C19_Witness ==
    /\ cad_obj # <<>>
    /\ CleanCommit
    /\ NamesOf(dict_outputs) = <<"default", "out1">>
    /\ ArgsOf("addOutputPercentage") = <<"out1">>
    /\ ArgsOf("addCustomTopInlet") = <<"t1">>
    /\ Cardinality(At("autoPlaceTopInlets")) = 1

(* C20: when addCustomTopInlet raises the incompatibility condition, no    *)
(* further top inlet is attached, the auto-placement is not called, no     *)
(* error is reported for it, and the commit goes on as a success: the      *)
(* owner's buildModule is called with the object on the create path, the   *)
(* owner's refresh on the update path.                                     *)
C20_IncompatibilitySwallowed ==
    \A i \in 1..Len(log) :
        Swallowed(i)
          => /\ \A j \in (i + 1)..Len(log) :
                   log[j].op \notin AttachOps \cup {"autoPlaceTopInlets"}
             /\ At("autoPlaceTopInlets") = {}
             /\ \A m \in Range(Messages) : m = Message("Refresh error")
             /\ \E j \in (i + 1)..Len(log) :
                   /\ log[j].tgt = "parent"
                   /\ log[j].op = (IF built # <<>> THEN "buildModule" ELSE "refresh")
                   /\ log[j].exc = "none" => (Messages = <<>> /\ phase = "closed")
             /\ (built # <<>>) <=> (cad_obj = <<>>)

(* Two top inlets registered for a new module: the first raised the        *)
(* incompatibility condition, the second was never attached, and the owner *)
(* was handed the object.                                                  *)
C20_Witness ==
    /\ CreateMode
    /\ Len(dict_top_inlets) = 2
    /\ Len(ArgsOf("addCustomTopInlet")) = 1
    /\ \E i \in 1..Len(log) : Swallowed(i)
    /\ Messages = <<>>
    /\ Len(built) = 1
    /\ phase = "closed"

(* The object a commit builds I/O on: the new object handed to the owner,  *)
(* or the live object.                                                     *)
CommitObject == IF cad_obj = <<>> THEN built ELSE cad_obj

(* C21: when autoPlaceTopInlets raises the constraint condition, exactly   *)
(* one "Auto-placement error" is reported, right after the call, nothing   *)
(* more is attached or placed, and the object still holds every input,     *)
(* output and top inlet attached before the call.                          *)
C21_AutoPlacementErrorKeepsIO ==
    \A i \in At("autoPlaceTopInlets") :
        log[i].exc = ConstraintError
          => /\ Len(SelectSeq(log, LAMBDA e : e = Message("Auto-placement error"))) = 1
             /\ i < Len(log) /\ log[i + 1] = Message("Auto-placement error")
             /\ \A j \in (i + 1)..Len(log) :
                   log[j].op \notin AttachOps \cup {"autoPlaceTopInlets"}
             /\ \A j \in 1..(i - 1) : log[j].exc = "none"
             /\ Len(CommitObject) = 1
             /\ AllRegisteredAttached(CommitObject[1])

(* The update of the module with a connected input: the input was          *)
(* attached, the placement raised, the error was reported and the input    *)
(* is on the live object.                                                  *)
C21_Witness ==
    /\ cad_obj # <<>>
    /\ \E i \in At("autoPlaceTopInlets") : log[i].exc = ConstraintError
    /\ ArgsOf("addInputPercentage") = <<"in1">>
    /\ Has(cad_obj[1].inputs, "in1")
    /\ Message("Auto-placement error") \in Range(log)

(* Every attach call on the live object that returned left its entry on    *)
(* the live object.                                                        *)
LiveAttachedStay ==
    \A i \in LiveAttaches :
        log[i].exc = "none"
          => /\ log[i].op = "addInputPercentage"
                  => Has(cad_obj[1].inputs, log[i].arg)
             /\ log[i].op = "addOutputPercentage"
                  => Has(cad_obj[1].outputs, log[i].arg)
             /\ log[i].op = "addCustomTopInlet"
                  => Has(cad_obj[1].top_inlets, log[i].arg)

(* C22, as claimed: every update commit that wrote to the live object ends *)
(* by asking the owner to refresh; when the refresh raises, a "Refresh     *)
(* error" is reported and what was written stays.                          *)
C22_Original ==
    (cad_obj # <<>> /\ LiveSetsDone # {})
        => /\ Cardinality(Refreshes) = 1
           /\ \A i \in Refreshes :
                log[i].exc # "none"
                  => /\ log[Len(log)] = Message("Refresh error")
                     /\ \A f \in ScalarFields : cad_obj[1][f] = params[f]
                     /\ LiveAttachedStay

(* C22, amended: an update commit that wrote to the live object asks the   *)
(* owner to refresh, once and as its last call, when all its writes and    *)
(* its I/O step returned; when the refresh raises, a "Refresh error" is    *)
(* reported, the dialog closes, and the scalars and the I/O written stay.  *)
(* When the I/O step reported an "I/Os error", or a write on the live      *)
(* object raised, no refresh is asked.                                     *)
C22_RefreshAfterCompleteUpdate ==
    (cad_obj # <<>> /\ LiveSetsDone # {})
        => IF Message("I/Os error") \in Range(log) \/ phase = "raised"
           THEN Refreshes = {}
           ELSE /\ Cardinality(Refreshes) = 1
                /\ \A i \in Refreshes :
                     /\ \A j \in 1..Len(log) : log[j].op # "message" => j <= i
                     /\ log[i].exc # "none"
                          => /\ log[Len(log)] = Message("Refresh error")
                             /\ i = Len(log) - 1
                     /\ log[i].exc = "none" => i = Len(log)
                /\ phase = "closed"
                /\ \A f \in ScalarFields : cad_obj[1][f] = params[f]
                /\ LiveAttachedStay

(* The refresh raised after the top of the module with input "in1" was     *)
(* changed: the error was reported and the live object has the new top and *)
(* the input.                                                              *)
C22_Witness ==
    /\ cad_obj # <<>>
    /\ \E i \in Refreshes : log[i].exc # "none"
    /\ Message("Refresh error") \in Range(log)
    /\ Has(cad_obj[1].inputs, "in1")
    /\ params.type_top # "top_A"
    /\ cad_obj[1].type_top = params.type_top

(* Assignments of the radius to an object in the log of a commit *)
RadiusAssignments == {i \in 1..Len(log) : log[i].op = "set" /\ log[i].arg = "r"}

(* C23: a commit assigns the snapshot's radius to an object (the           *)
(* validation object, the new object or the live object) only when the     *)
(* snapshot has r_constrained true and a top that is not threaded; then it *)
(* assigns it to every object it constructed and, on the update path, as   *)
(* the first write on the live object; otherwise it assigns no radius.     *)
C23_RadiusOnlyWhenMeaningful ==
    log # <<>> /\ ~test /\ log[1].op = "construct"
        => IF params.r_constrained /\ params.type_top \notin THREADED_TOPS
           THEN /\ log[1].exc = "none"
                     => Len(log) >= 2 /\ log[2].op = "set" /\ log[2].arg = "r"
                        /\ log[2].tgt = log[1].tgt
                /\ \A i \in LiveSets : log[i].arg # "r_constrained"
                /\ \A i \in RadiusAssignments :
                      i = 2 \/ (i = 3 /\ log[i].tgt = "live")
           ELSE RadiusAssignments = {}

(* The module restored with the user's radius 5, committed after the user  *)
(* unchecked the constraint: the form still held 5, no radius was          *)
(* assigned, and the live object has the derived radius.                   *)
C23_Witness ==
    /\ cad_obj # <<>>
    /\ CleanCommit
    /\ Has(cad_obj[1].inputs, "in1")
    /\ ~params.r_constrained
    /\ params.r = Hundredths(5)
    /\ RadiusAssignments = {}
    /\ cad_obj[1].r # 5

(* C24: an update commit constructs the validation object exactly once,   *)
(* as its first call and with the calls of the create path (the            *)
(* construction, then the radius when it is used); the validation object   *)
(* receives no I/O, is not handed to the owner, and is not kept;           *)
(* buildModule is never called on the update path and no new object is     *)
(* made.                                                                   *)
C24_ValidationObjectDisposable ==
    (cad_obj # <<>> /\ log # <<>> /\ log[1].op # "deleteModule")
        => /\ log[1] \in {[op |-> "construct", tgt |-> "tmp", arg |-> "", exc |-> e] :
                            e \in {"none"} \cup ExcKinds}
           /\ Cardinality({i \in ValidationCalls : log[i].op = "construct"}) = 1
           /\ \A i \in ValidationCalls :
                 \/ i = 1
                 \/ i = 2 /\ log[i].op = "set" /\ log[i].arg = "r"
           /\ \A i \in 1..Len(log) : log[i].tgt # "new"
           /\ At("buildModule") = {}
           /\ built = <<>>

(* The clean update of the module with an output and a top inlet: both     *)
(* were attached to the live object, none to the validation object.        *)
C24_Witness ==
    /\ cad_obj # <<>>
    /\ CleanCommit
    /\ Cardinality(ValidationCalls) = 1
    /\ Cardinality(LiveAttaches) = 3
    /\ Cardinality(Refreshes) = 1
    /\ built = <<>>

(* The registry a row of the table belongs to, by the type it shows *)
RegistryOf(type_io) ==
    IF type_io = SIDE_INPUT THEN dict_inputs
    ELSE IF type_io \in {SIDE_OUTPUT, DEF_OUTPUT} THEN dict_outputs
    ELSE dict_top_inlets

RowsOf(name, types) ==
    {i \in 1..Len(table_io) : table_io[i].name = name /\ table_io[i].type \in types}

(* C25, as claimed: in the open editor the rows of the table and the       *)
(* entries of the three registries correspond one to one: every row names  *)
(* an entry of the registry of its kind, and every entry has exactly one   *)
(* row of its kind.                                                        *)
C25_Original ==
    phase = "open"
        => /\ \A i \in 1..Len(table_io) :
                 Has(RegistryOf(table_io[i].type), table_io[i].name)
           /\ \A n \in Keys(dict_inputs) :
                 Cardinality(RowsOf(n, {SIDE_INPUT})) = 1
           /\ \A n \in Keys(dict_outputs) :
                 Cardinality(RowsOf(n, {SIDE_OUTPUT, DEF_OUTPUT})) = 1
           /\ \A n \in Keys(dict_top_inlets) :
                 Cardinality(RowsOf(n, {TOP_LUER, TOP_CUSTOM})) = 1

(* buildModule has run: it left calls in the log, or it ran in standalone  *)
(* mode, where it only fills self.params.                                  *)
CommitRan ==
    \/ log # <<>> /\ log[1].op # "deleteModule"
    \/ test /\ params # <<>> /\ "align_top_strategy" \in DOMAIN params

(* C26, as claimed: once buildModule has run the dialog is closed,         *)
(* whatever the outcome of the commit.                                     *)
C26_Original ==
    CommitRan => phase = "closed"

(* C27: a commit of the form as it was restored from an existing module,   *)
(* in which nothing raises, leaves the live object's scalar parameters,    *)
(* its radius and its radius constraint as they were, whether the top is   *)
(* threaded or not.                                                        *)
C27_RestoreCommitRoundTrip ==
    [][(/\ phase = "open" /\ phase' = "closed"
        /\ cad_obj # <<>>
        /\ ui = Baseline
        /\ CleanCommit'
        /\ Refreshes' # {})
       => /\ \A f \in ScalarFields \cup {"r", "r_constrained"} :
                cad_obj'[1][f] = cad_obj[1][f]
          /\ \A f \in ScalarFields : params'[f] = cad_obj[1][f]
      ]_vars

(* The module with a threaded top committed as restored: the constraint    *)
(* was written as released, the top written again, and the object still    *)
(* has the constraint and the derived radius.                              *)
C27_Witness ==
    /\ cad_obj # <<>>
    /\ phase = "closed"
    /\ CleanCommit
    /\ Refreshes # {}
    /\ cad_obj[1] = LiveB
    /\ cad_obj[1].type_top \in THREADED_TOPS
    /\ \E i \in LiveSets : log[i].arg = "r_constrained"
    /\ cad_obj[1].r_constrained

(* C28: a commit runs exactly one path.  In standalone mode it fills       *)
(* self.params from the form and calls nothing.  With no live object it    *)
(* runs the create path: every call is on the new object or the owner's    *)
(* buildModule, none on a live or a validation object, and no refresh.     *)
(* With a live object it runs the update path: every call is on the        *)
(* validation object, the live object or the owner's refresh, no new       *)
(* object is made and buildModule is not called.                           *)
C28_OnePathPerCommit ==
    CommitRan
        => /\ params = readForm(ui)
           /\ IF test
              THEN log = <<>> /\ built = <<>> /\ phase = "closed"
              ELSE /\ log[1].op = "construct"
                   /\ IF cad_obj = <<>>
                      THEN /\ log[1].tgt = "new"
                           /\ \A i \in 1..Len(log) :
                                 /\ log[i].tgt \in {"new", "parent", "user"}
                                 /\ log[i].tgt = "parent" => log[i].op = "buildModule"
                      ELSE /\ log[1].tgt = "tmp"
                           /\ \A i \in 1..Len(log) :
                                 /\ log[i].tgt \in {"tmp", "live", "parent", "user"}
                                 /\ log[i].tgt = "parent" => log[i].op = "refresh"
                           /\ built = <<>>

(* A commit in standalone mode: the form was read, nothing was called, the *)
(* dialog is closed.                                                       *)
C28_Witness ==
    /\ test
    /\ params # <<>>
    /\ params.type_top = ui.combo_top
    /\ log = <<>>
    /\ built = <<>>
    /\ phase = "closed"

====
